---- MODULE Spec2Model ----
(***************************************************************************)
(* econtext: thread-local error-context stack (src/src/lib.rs).           *)
(*                                                                         *)
(* Every thread owns ERROR_STACK, a RefCell<Option<*const dyn Entry>>.     *)
(* The econtext macros put a DataScope in the current stack frame of the   *)
(* calling function and register a raw pointer to it in ERROR_STACK; Drop  *)
(* restores the pointer captured at construction.  econtext_string walks   *)
(* the `previous` pointers and formats one line per DataScope.             *)
(*                                                                         *)
(* A DataScope lives in the call stack of its thread, so its address is    *)
(* modelled as (thread, slot) where slot is the position of the `_scope`   *)
(* local among the live ones of that thread; `stack[t]` is that memory.    *)
(* Formatted text is a sequence of the string pieces handed to             *)
(* fmt::Write::write_str, in order.                                        *)
(***************************************************************************)
EXTENDS Integers, Sequences, FiniteSets, TLC

VARIABLES
    pc,           \* per thread: position of the thread's control flow
    ERROR_STACK,  \* per thread: the thread_local RefCell's content
    stack,        \* per thread: the live DataScope locals, outermost first
    ret,          \* per thread: value returned by econtext_string(), until the next statement
    atEntry,      \* per thread: history, ERROR_STACK as it was when each live scope's macro began
    crash,        \* process-wide: "none", or the panic raised by the library itself
    hook,         \* process-wide: the installed panic hook
    taken,        \* per thread: previous_hook local of a running add_panic_hook()
    unwindTo,     \* per thread: number of scopes below the catch point of the current unwinding
    log,          \* per thread: what the hook run for the thread's current panic did, in order
    stderr,       \* per thread: what the thread's latest hook run or print_econtext() wrote with eprintln!, until its next statement
    loopI,        \* per thread: the `i` of the for loop in process()
    added,        \* history: number of add_panic_hook() calls that have returned
    original      \* history: the hook that was installed when the program started

vars == <<pc, ERROR_STACK, stack, ret, atEntry, crash, hook, taken, unwindTo, log, stderr,
          loopI, added, original>>

----------------------------------------------------------------------------
(* Bounds *)

\* Most DataScopes alive at once in the whole process.
MaxScopes == 4
\* Most DataScopes alive at once where panics and hooks are explored.
MaxHookScopes == 2
\* Most add_panic_hook() calls.
MaxHooks == 2

Threads == {"T1", "T2"}
MainThread == "T1"

----------------------------------------------------------------------------
(* Option<*const dyn Entry> *)

None == [some |-> FALSE]
Some(p) == [some |-> TRUE, ptr |-> p]
Ptr(t, slot) == [thread |-> t, slot |-> slot]

\* The thread_local! initialiser.
ErrorStackInit == None

\* Whether a raw pointer still points at a live DataScope.
IsLive(p) == p.slot \in 1..Len(stack[p.thread])
Deref(p) == stack[p.thread][p.slot]

----------------------------------------------------------------------------
(* Payloads and their Debug implementations *)

EmptyDebug == [type |-> "EmptyDebug"]
I32(v) == [type |-> "i32", value |-> v]
OwnedString(s) == [type |-> "String", value |-> s]
\* A payload whose Debug::fmt returns Err(fmt::Error) without writing.
FailingDebug == [type |-> "FailingDebug"]
\* A payload whose Debug::fmt is itself instrumented: it runs econtext!(..)
\* and then writes its text.
ScopedDebug == [type |-> "ScopedDebug"]

\* RefCell<T>: borrow() needs no writer, borrow_mut() needs no borrow at all.
\* `readers` is the number of Ref guards alive (no RefMut outlives a statement here).
CanBorrow(readers) == readers >= 0
CanBorrowMut(readers) == readers = 0

\* <Data as Debug>::fmt, run while `readers` shared borrows of the thread's
\* ERROR_STACK are alive.  result is "Ok", "Err", or "Panic".
DebugFmt(data, readers) ==
    CASE data.type = "EmptyDebug" -> [out |-> <<>>, result |-> "Ok"]
      [] data.type = "i32" -> [out |-> <<ToString(data.value)>>, result |-> "Ok"]
      [] data.type = "String" -> [out |-> <<"\"" \o data.value \o "\"">>, result |-> "Ok"]
      [] data.type = "FailingDebug" -> [out |-> <<>>, result |-> "Err"]
      [] data.type = "ScopedDebug" ->
            \* econtext!: DataScope::new borrows, then the macro borrows mutably
            IF CanBorrow(readers) /\ CanBorrowMut(readers)
            THEN [out |-> <<"scoped">>, result |-> "Ok"]
            ELSE [out |-> <<>>, result |-> "Panic"]

----------------------------------------------------------------------------
(* Call sites: what module_path!(), file!(), line!() and the macro arguments give *)

ExampleModule == "example"
ExampleFile == "examples/example.rs"

Site(line, message, data) ==
    [module_path |-> ExampleModule, file |-> ExampleFile, line |-> line,
     message |-> message, data |-> data]

SiteMain == Site(5, "While running", EmptyDebug)
SiteRun == Site(10, "example::run", EmptyDebug)
SiteProcess == Site(15, "example::process", OwnedString("filename.txt"))
SiteLoopAt(i) == Site(17, "i", I32(i))
SiteLoop == Site(17, "i", I32(4))
SiteFailing == Site(30, "failing", FailingDebug)
SiteScoped == Site(40, "scoped", ScopedDebug)

\* Call sites whose payload's Debug::fmt returns Ok or Err.
Sites == {SiteMain, SiteRun, SiteProcess, SiteLoop, SiteFailing}
\* The call sites used where panics and hooks are explored.
HookSites == {SiteMain, SiteLoop}

----------------------------------------------------------------------------
(* Entry::write and econtext_string *)

\* The pieces write! emits before the payload: "  {} {}:{}: {} "
Prefix(f) ==
    <<"  ", f.module_path, " ", f.file, ":", ToString(f.line), ": ", f.message, " ">>

\* What one write! call appends for frame f, and how it ended.  fmt::write
\* stops at the first piece that fails, so the "\n" follows only a payload
\* that formatted; the Result is then discarded by .ok().
WriteOwn(f, readers) ==
    LET d == DebugFmt(f.data, readers)
    IN  [out |-> Prefix(f) \o d.out \o (IF d.result = "Ok" THEN <<"\n">> ELSE <<>>),
         result |-> d.result]

RECURSIVE WriteOutermostFirst(_, _)
\* write that lets the predecessor write before the frame itself.
WriteOutermostFirst(p, readers) ==
    IF ~IsLive(p) THEN [out |-> <<>>, status |-> "ub"]
    ELSE LET f == Deref(p)
             own == WriteOwn(f, readers)
         IN  IF f.previous.some
             THEN LET rest == WriteOutermostFirst(f.previous.ptr, readers)
                  IN  [out |-> rest.out \o own.out, status |-> rest.status]
             ELSE [out |-> own.out, status |-> "ok"]

\* write that renders the frame and forgets its predecessor.
WriteTopOnly(p, readers) ==
    IF ~IsLive(p) THEN [out |-> <<>>, status |-> "ub"]
    ELSE LET own == WriteOwn(Deref(p), readers)
         IN  [out |-> own.out, status |-> IF own.result = "Panic" THEN "panic" ELSE "ok"]

RECURSIVE WriteStopOnErr(_, _)
\* write that gives up on the chain at the first formatting error.
WriteStopOnErr(p, readers) ==
    IF ~IsLive(p) THEN [out |-> <<>>, status |-> "ub"]
    ELSE LET f == Deref(p)
             own == WriteOwn(f, readers)
         IN  IF own.result = "Panic" THEN [out |-> own.out, status |-> "panic"]
             ELSE IF own.result = "Ok" /\ f.previous.some
                  THEN LET rest == WriteStopOnErr(f.previous.ptr, readers)
                       IN  [out |-> own.out \o rest.out, status |-> rest.status]
                  ELSE [out |-> own.out, status |-> "ok"]

RECURSIVE WriteTwice(_, _)
\* write that formats the frame again before it goes on to the predecessor.
WriteTwice(p, readers) ==
    IF ~IsLive(p) THEN [out |-> <<>>, status |-> "ub"]
    ELSE LET f == Deref(p)
             own == WriteOwn(f, readers)
         IN  IF own.result = "Panic" THEN [out |-> own.out, status |-> "panic"]
             ELSE IF f.previous.some
                  THEN LET rest == WriteTwice(f.previous.ptr, readers)
                       IN  [out |-> own.out \o own.out \o rest.out, status |-> rest.status]
                  ELSE [out |-> own.out \o own.out, status |-> "ok"]

RECURSIVE Write(_, _)
\* <DataScope as Entry>::write on the DataScope at p.  status is "ok",
\* "panic" (a panic unwound out of it) or "ub" (a dangling pointer was read).
Write(p, readers) ==
    IF ~IsLive(p) THEN [out |-> <<>>, status |-> "ub"]
    ELSE LET f == Deref(p)
             own == WriteOwn(f, readers)
         IN  IF own.result = "Panic" THEN [out |-> own.out, status |-> "panic"]
             ELSE IF f.previous.some
                  THEN LET rest == Write(f.previous.ptr, readers)
                       IN  [out |-> own.out \o rest.out, status |-> rest.status]
                  ELSE [out |-> own.out, status |-> "ok"]

\* econtext_string() that answers with a header when there is no scope.
EcontextStringHeader(t) ==
    IF ERROR_STACK[t].some
    THEN Write(ERROR_STACK[t].ptr, 1)
    ELSE [out |-> <<"ERROR CONTEXT:", "\n">>, status |-> "ok"]

\* econtext_string() on thread t.  The Ref returned by value.borrow() lives
\* until the end of the if-let, so one shared borrow is alive during write.
EcontextStringOf(t) ==
    IF ERROR_STACK[t].some
    THEN Write(ERROR_STACK[t].ptr, 1)
    ELSE [out |-> <<>>, status |-> "ok"]

----------------------------------------------------------------------------
(* print_econtext and the panic hook *)

\* The hook std installs, and a hook C the host installed itself.
DefaultHook == [layers |-> 0, base |-> "default"]
UserHook == [layers |-> 0, base |-> "C"]
NoHook == [layers |-> 0, base |-> "none"]

\* String::is_empty on the concatenation of the pieces.
IsEmptyText(text) == \A i \in 1..Len(text) : text[i] = ""

\* The text econtext_string() hands back; g is what a read through a
\* dangling pointer produced.
RenderText(r, g) == IF r.status = "ub" THEN g ELSE r.out

\* print_econtext() without the is_empty test.
PrintEcontextAlways(t, st, g) ==
    LET r == EcontextStringOf(t)
        context == RenderText(r, g)
    IN  IF r.status = "panic"
        THEN [st EXCEPT !.crash = "BorrowMutError"]
        ELSE [log |-> Append(st.log, [kind |-> "print_econtext", thread |-> t,
                                      context |-> context]),
              stderr |-> st.stderr \o <<"ERROR CONTEXT:", "\n">> \o context \o <<"\n">>,
              crash |-> st.crash]

\* print_econtext() on thread t, threading the process state st =
\* [log, stderr, crash] through.
PrintEcontext(t, st, g) ==
    LET r == EcontextStringOf(t)
        context == RenderText(r, g)
    IN  IF r.status = "panic"
        THEN [st EXCEPT !.crash = "BorrowMutError"]
        ELSE [log |-> Append(st.log, [kind |-> "print_econtext", thread |-> t,
                                      context |-> context]),
              stderr |-> IF IsEmptyText(context) THEN st.stderr
                         ELSE st.stderr \o <<"ERROR CONTEXT:", "\n">> \o context \o <<"\n">>,
              crash |-> st.crash]

\* The closure add_panic_hook() installs around previous_hook.
Wrap(previous_hook) == [layers |-> previous_hook.layers + 1, base |-> previous_hook.base]
Unwrap(h) == [layers |-> h.layers - 1, base |-> h.base]

\* A call of the host's hook (or std's default one) with panic_info.
CallBase(h, info, st) ==
    [st EXCEPT !.log = Append(@, [kind |-> "hook", name |-> h.base, info |-> info])]

RECURSIVE InvokeHookPreviousFirst(_, _, _, _, _)
\* A closure that calls previous_hook before print_econtext().
InvokeHookPreviousFirst(h, t, info, st, g) ==
    IF h.layers = 0 THEN CallBase(h, info, st)
    ELSE LET called == InvokeHookPreviousFirst(Unwrap(h), t, info, st, g)
         IN  PrintEcontext(t, called, g)

RECURSIVE InvokeHook(_, _, _, _, _)
\* Running hook h for a panic of thread t: each closure of add_panic_hook
\* runs print_econtext() and then calls the hook it captured.
InvokeHook(h, t, info, st, g) ==
    IF h.layers = 0 THEN CallBase(h, info, st)
    ELSE LET printed == PrintEcontext(t, st, g)
         IN  IF printed.crash # "none" THEN printed
             ELSE InvokeHook(Unwrap(h), t, info, printed, g)

----------------------------------------------------------------------------
(* Control flow of one thread *)

NoRet == [has |-> FALSE, text |-> <<>>]
Returned(text) == [has |-> TRUE, text |-> text]

\* Positions between two statements of instrumented code.
Ready == {"run", "entered", "exited", "returned", "printed", "hooked", "caught", "iterating"}

LiveScopes == Len(stack["T1"]) + Len(stack["T2"])

\* What a read through a dangling pointer can give back to the renderer.
UBOutcomes == {<<>>, <<"<garbage>">>}

PanicMessage == "Intentional panic"

InitCore ==
    /\ pc = [t \in Threads |-> IF t = MainThread THEN "run" ELSE "idle"]
    /\ ERROR_STACK = [t \in Threads |-> ErrorStackInit]
    /\ stack = [t \in Threads |-> <<>>]
    /\ ret = [t \in Threads |-> NoRet]
    /\ atEntry = [t \in Threads |-> <<>>]
    /\ crash = "none"
    /\ taken = [t \in Threads |-> NoHook]
    /\ unwindTo = [t \in Threads |-> 0]
    /\ log = [t \in Threads |-> <<>>]
    /\ stderr = [t \in Threads |-> <<>>]
    /\ loopI = [t \in Threads |-> 0]
    /\ added = 0

Init == InitCore /\ hook = DefaultHook /\ original = hook

\* The host may have installed its own hook C before using the library.
InitHook == InitCore /\ hook \in {DefaultHook, UserHook} /\ original = hook

\* DataScope::new that registers the scope it builds.
DataScopeNewRegisters(t, site) ==
    /\ crash = "none"
    /\ pc[t] \in Ready
    /\ LiveScopes < MaxScopes
    /\ stack' = [stack EXCEPT ![t] =
                    Append(@, [previous |-> ERROR_STACK[t],
                               module_path |-> site.module_path,
                               file |-> site.file,
                               line |-> site.line,
                               message |-> site.message,
                               data |-> site.data])]
    /\ ERROR_STACK' = [ERROR_STACK EXCEPT ![t] = Some(Ptr(t, Len(stack[t]) + 1))]
    /\ atEntry' = [atEntry EXCEPT ![t] = Append(@, ERROR_STACK[t])]
    /\ pc' = [pc EXCEPT ![t] = "new"]
    /\ ret' = [ret EXCEPT ![t] = NoRet]
    /\ stderr' = [stderr EXCEPT ![t] = <<>>]
    /\ UNCHANGED <<crash, hook, taken, unwindTo, log, loopI, added, original>>

\* DataScope::new, the first statement of every econtext macro: the new
\* `_scope` local captures the current content of ERROR_STACK.
DataScopeNew(t, site) ==
    /\ crash = "none"
    /\ pc[t] \in Ready
    /\ LiveScopes < MaxScopes
    /\ stack' = [stack EXCEPT ![t] =
                    Append(@, [previous |-> ERROR_STACK[t],
                               module_path |-> site.module_path,
                               file |-> site.file,
                               line |-> site.line,
                               message |-> site.message,
                               data |-> site.data])]
    /\ atEntry' = [atEntry EXCEPT ![t] = Append(@, ERROR_STACK[t])]
    /\ pc' = [pc EXCEPT ![t] = "new"]
    /\ ret' = [ret EXCEPT ![t] = NoRet]
    /\ stderr' = [stderr EXCEPT ![t] = <<>>]
    /\ UNCHANGED <<ERROR_STACK, crash, hook, taken, unwindTo, log, loopI, added, original>>

\* The second statement of the macro:
\* ERROR_STACK.with(|stack| *stack.borrow_mut() = Some(&_scope)).
Register(t) ==
    /\ crash = "none"
    /\ pc[t] = "new"
    /\ ERROR_STACK' = [ERROR_STACK EXCEPT ![t] = Some(Ptr(t, Len(stack[t])))]
    /\ pc' = [pc EXCEPT ![t] = "entered"]
    /\ UNCHANGED <<stack, ret, atEntry, crash, hook, taken, unwindTo, log, stderr, loopI, added, original>>

\* Drop as a plain pop to the empty stack.
DropToNone(t) ==
    /\ ERROR_STACK' = [ERROR_STACK EXCEPT ![t] = None]
    /\ stack' = [stack EXCEPT ![t] = SubSeq(@, 1, Len(@) - 1)]
    /\ atEntry' = [atEntry EXCEPT ![t] = SubSeq(@, 1, Len(@) - 1)]

\* Drop that frees the scope and leaves ERROR_STACK alone.
DropKeep(t) ==
    /\ stack' = [stack EXCEPT ![t] = SubSeq(@, 1, Len(@) - 1)]
    /\ atEntry' = [atEntry EXCEPT ![t] = SubSeq(@, 1, Len(@) - 1)]
    /\ UNCHANGED ERROR_STACK

\* impl Drop for DataScope on the innermost `_scope` of thread t, after
\* which the local is gone.
Drop(t) ==
    /\ ERROR_STACK' = [ERROR_STACK EXCEPT ![t] = stack[t][Len(stack[t])].previous]
    /\ stack' = [stack EXCEPT ![t] = SubSeq(@, 1, Len(@) - 1)]
    /\ atEntry' = [atEntry EXCEPT ![t] = SubSeq(@, 1, Len(@) - 1)]

\* The innermost `_scope` goes out of scope at the end of its block.
ScopeExit(t) ==
    /\ crash = "none"
    /\ pc[t] \in Ready
    /\ stack[t] # <<>>
    /\ Drop(t)
    /\ pc' = [pc EXCEPT ![t] = "exited"]
    /\ ret' = [ret EXCEPT ![t] = NoRet]
    /\ stderr' = [stderr EXCEPT ![t] = <<>>]
    /\ UNCHANGED <<crash, hook, taken, unwindTo, log, loopI, added, original>>

\* econtext_string() that unlinks the innermost frame it has rendered.
EcontextStringConsuming(t) ==
    /\ crash = "none"
    /\ pc[t] \in Ready
    /\ LET r == EcontextStringOf(t)
       IN  /\ \E g \in (IF r.status = "ub" THEN UBOutcomes ELSE {<<>>}) :
                ret' = [ret EXCEPT ![t] = IF r.status = "panic" THEN NoRet
                                          ELSE Returned(RenderText(r, g))]
           /\ crash' = IF r.status = "panic" THEN "BorrowMutError" ELSE "none"
           /\ pc' = [pc EXCEPT ![t] = IF r.status = "panic" THEN "aborted" ELSE "returned"]
    /\ ERROR_STACK' = [ERROR_STACK EXCEPT ![t] =
                          IF @.some /\ IsLive(@.ptr) THEN Deref(@.ptr).previous ELSE @]
    /\ stderr' = [stderr EXCEPT ![t] = <<>>]
    /\ UNCHANGED <<stack, atEntry, hook, taken, unwindTo, log, loopI, added, original>>

\* A call of econtext_string() by instrumented code.  A panic raised inside
\* it meets the still-borrowed ERROR_STACK again in the Drop of the scope
\* being unwound (or in the hook), so the process aborts.
EcontextString(t) ==
    /\ crash = "none"
    /\ pc[t] \in Ready
    /\ LET r == EcontextStringOf(t)
       IN  /\ \E g \in (IF r.status = "ub" THEN UBOutcomes ELSE {<<>>}) :
                ret' = [ret EXCEPT ![t] = IF r.status = "panic" THEN NoRet
                                          ELSE Returned(RenderText(r, g))]
           /\ crash' = IF r.status = "panic" THEN "BorrowMutError" ELSE "none"
           /\ pc' = [pc EXCEPT ![t] = IF r.status = "panic" THEN "aborted" ELSE "returned"]
    /\ stderr' = [stderr EXCEPT ![t] = <<>>]
    /\ UNCHANGED <<ERROR_STACK, stack, atEntry, hook, taken, unwindTo, log, loopI, added, original>>

\* A call of print_econtext() by instrumented code.
PrintEcontextCall(t) ==
    /\ crash = "none"
    /\ pc[t] \in Ready
    /\ \E g \in (IF EcontextStringOf(t).status = "ub" THEN UBOutcomes ELSE {<<>>}) :
         LET after == PrintEcontext(t, [log |-> <<>>, stderr |-> <<>>, crash |-> crash], g)
         IN  /\ stderr' = [stderr EXCEPT ![t] = after.stderr]
             /\ crash' = after.crash
             /\ pc' = [pc EXCEPT ![t] = IF after.crash # "none" THEN "aborted" ELSE "printed"]
    /\ ret' = [ret EXCEPT ![t] = NoRet]
    /\ UNCHANGED <<ERROR_STACK, stack, atEntry, hook, taken, unwindTo, log, loopI, added, original>>

\* A spawn whose child starts from the parent's ERROR_STACK.
SpawnInherit(p, c) ==
    /\ crash = "none"
    /\ pc[p] \in Ready
    /\ pc[c] = "idle"
    /\ pc' = [pc EXCEPT ![c] = "run"]
    /\ ERROR_STACK' = [ERROR_STACK EXCEPT ![c] = ERROR_STACK[p]]
    /\ UNCHANGED <<stack, ret, atEntry, crash, hook, taken, unwindTo, log, stderr, loopI, added, original>>

\* std::thread::spawn by a running thread: the new thread's ERROR_STACK is
\* its own instance of the thread_local, set by the initialiser.
Spawn(p, c) ==
    /\ crash = "none"
    /\ pc[p] \in Ready
    /\ pc[c] = "idle"
    /\ pc' = [pc EXCEPT ![c] = "run"]
    /\ ERROR_STACK' = [ERROR_STACK EXCEPT ![c] = ErrorStackInit]
    /\ UNCHANGED <<stack, ret, atEntry, crash, hook, taken, unwindTo, log, stderr, loopI, added, original>>

\* add_panic_hook(), first statement: take_hook() hands back the installed
\* hook and leaves std's default one installed.
TakeHook(t) ==
    /\ crash = "none"
    /\ pc[t] \in Ready
    /\ added + Cardinality({u \in Threads : pc[u] = "taking"}) < MaxHooks
    /\ taken' = [taken EXCEPT ![t] = hook]
    /\ hook' = DefaultHook
    /\ pc' = [pc EXCEPT ![t] = "taking"]
    /\ ret' = [ret EXCEPT ![t] = NoRet]
    /\ stderr' = [stderr EXCEPT ![t] = <<>>]
    /\ UNCHANGED <<ERROR_STACK, stack, atEntry, crash, unwindTo, log, loopI, added, original>>

\* add_panic_hook(), second statement: set_hook() installs the closure that
\* owns previous_hook.
SetHook(t) ==
    /\ crash = "none"
    /\ pc[t] = "taking"
    /\ hook' = Wrap(taken[t])
    /\ taken' = [taken EXCEPT ![t] = NoHook]
    /\ pc' = [pc EXCEPT ![t] = "hooked"]
    /\ added' = added + 1
    /\ UNCHANGED <<ERROR_STACK, stack, ret, atEntry, crash, unwindTo, log, stderr, loopI, original>>

\* Instrumented code on thread t panics (the assert! of the example): std
\* runs the installed hook on t before unwinding anything.  The unwinding
\* then runs up to a catch_unwind with `c` scopes below it.
Panic(t, c) ==
    /\ crash = "none"
    /\ pc[t] \in Ready
    /\ c \in 0..Len(stack[t])
    /\ \E g \in (IF EcontextStringOf(t).status = "ub" THEN UBOutcomes ELSE {<<>>}) :
         LET info == [thread |-> t, message |-> PanicMessage]
             after == InvokeHook(hook, t, info,
                                 [log |-> <<>>, stderr |-> <<>>, crash |-> crash], g)
         IN  /\ log' = [log EXCEPT ![t] = after.log]
             /\ stderr' = [stderr EXCEPT ![t] = after.stderr]
             /\ crash' = after.crash
             /\ pc' = [pc EXCEPT ![t] = IF after.crash # "none" THEN "aborted" ELSE "unwind"]
    /\ unwindTo' = [unwindTo EXCEPT ![t] = c]
    /\ ret' = [ret EXCEPT ![t] = NoRet]
    /\ UNCHANGED <<ERROR_STACK, stack, atEntry, hook, taken, loopI, added, original>>

\* Unwinding that frees the innermost `_scope` without running its Drop.
UnwindForget(t) ==
    /\ crash = "none"
    /\ pc[t] = "unwind"
    /\ Len(stack[t]) > unwindTo[t]
    /\ stack' = [stack EXCEPT ![t] = SubSeq(@, 1, Len(@) - 1)]
    /\ atEntry' = [atEntry EXCEPT ![t] = SubSeq(@, 1, Len(@) - 1)]
    /\ UNCHANGED <<ERROR_STACK, pc, ret, crash, hook, taken, unwindTo, log, stderr, loopI, added, original>>

\* Unwinding leaves the block of the innermost `_scope`.
Unwind(t) ==
    /\ crash = "none"
    /\ pc[t] = "unwind"
    /\ Len(stack[t]) > unwindTo[t]
    /\ Drop(t)
    /\ UNCHANGED <<pc, ret, crash, hook, taken, unwindTo, log, stderr, loopI, added, original>>

\* Unwinding reaches the catch_unwind; the thread goes on from there.
Caught(t) ==
    /\ crash = "none"
    /\ pc[t] = "unwind"
    /\ Len(stack[t]) = unwindTo[t]
    /\ pc' = [pc EXCEPT ![t] = "caught"]
    /\ unwindTo' = [unwindTo EXCEPT ![t] = 0]
    /\ log' = [log EXCEPT ![t] = <<>>]
    /\ stderr' = [stderr EXCEPT ![t] = <<>>]
    /\ UNCHANGED <<ERROR_STACK, stack, ret, atEntry, crash, hook, taken, loopI, added, original>>

Next ==
    \/ \E t \in Threads, site \in Sites : DataScopeNew(t, site)
    \/ \E t \in Threads : Register(t)
    \/ \E t \in Threads : ScopeExit(t)
    \/ \E t \in Threads : EcontextString(t)
    \/ \E p, c \in Threads : Spawn(p, c)

\* Instrumented threads that enter, leave and render scopes.
Spec == Init /\ [][Next]_vars

NextPrint ==
    \/ Next
    \/ \E t \in Threads : PrintEcontextCall(t)

\* The same, with threads that call print_econtext() themselves.
SpecPrint == Init /\ [][NextPrint]_vars

NextReentrant ==
    \/ Next
    \/ \E t \in Threads : DataScopeNew(t, SiteScoped)

\* The same, with payloads whose Debug::fmt is itself instrumented.
SpecReentrant == Init /\ [][NextReentrant]_vars

\* DataScope::new within the smaller budget of scopes used with hooks.
HookScopeNew(t, site) == LiveScopes < MaxHookScopes /\ DataScopeNew(t, site)

\* A panic below any of the catch points the thread may have set up.
PanicSomewhere(t) == \E c \in 0..Len(stack[t]) : Panic(t, c)

NextHook ==
    \/ \E t \in Threads, site \in HookSites : HookScopeNew(t, site)
    \/ \E t \in Threads : Register(t)
    \/ \E t \in Threads : ScopeExit(t)
    \/ \E p, c \in Threads : Spawn(p, c)
    \/ \E t \in Threads : TakeHook(t)
    \/ \E t \in Threads : SetHook(t)
    \/ \E t \in Threads : PanicSomewhere(t)
    \/ \E t \in Threads : Unwind(t)
    \/ \E t \in Threads : Caught(t)

\* Instrumented threads that install the hook and panic.
SpecHook == InitHook /\ [][NextHook]_vars

----------------------------------------------------------------------------
(* examples/example.rs *)

\* `for i in 0..10` and `assert!(i != 4, ..)`.
LoopStart == 0
LoopEnd == 10
AssertedNot == 4

\* The line of the innermost registered scope of t, 0 without one.
TopLine(t) == IF stack[t] = <<>> THEN 0 ELSE stack[t][Len(stack[t])].line

\* main: econtext::add_panic_hook();
MainAddPanicHook == pc[MainThread] = "run" /\ TakeHook(MainThread)

\* main: econtext!("While running");
MainEcontext == pc[MainThread] = "hooked" /\ DataScopeNew(MainThread, SiteMain)

\* run, called by main or as the body of a spawned thread: econtext_function!();
RunEcontextFunction(t) ==
    /\ \/ t = MainThread /\ pc[t] = "entered" /\ TopLine(t) = SiteMain.line
       \/ t # MainThread /\ pc[t] = "run"
    /\ DataScopeNew(t, SiteRun)

\* process: econtext_function_data!(filename.to_owned());
ProcessEcontextFunctionData(t) ==
    /\ pc[t] = "entered" /\ TopLine(t) = SiteRun.line
    /\ DataScopeNew(t, SiteProcess)

\* process: the for loop takes the next i of 0..10 and begins its body.
ProcessForNext(t) ==
    /\ crash = "none"
    /\ \/ /\ pc[t] = "entered" /\ TopLine(t) = SiteProcess.line
          /\ loopI' = [loopI EXCEPT ![t] = LoopStart]
       \/ /\ pc[t] = "exited" /\ TopLine(t) = SiteProcess.line
          /\ loopI[t] + 1 < LoopEnd
          /\ loopI' = [loopI EXCEPT ![t] = @ + 1]
    /\ pc' = [pc EXCEPT ![t] = "iterating"]
    /\ UNCHANGED <<ERROR_STACK, stack, ret, atEntry, crash, hook, taken, unwindTo, log, stderr,
                   added, original>>

\* A loop body whose scope carries the i of the first iteration.
ProcessEcontextDataStale(t) ==
    /\ pc[t] = "iterating"
    /\ DataScopeNew(t, SiteLoopAt(LoopStart))

\* process: econtext_data!("i", i);
ProcessEcontextData(t) ==
    /\ pc[t] = "iterating"
    /\ DataScopeNew(t, SiteLoopAt(loopI[t]))

\* process: assert!(i != 4, "Intentional panic"); and, when it holds, the
\* end of the loop body.  Nothing in the example catches the panic, so the
\* unwinding runs out of every scope of the thread.
ProcessAssert(t) ==
    /\ pc[t] = "entered" /\ TopLine(t) = SiteLoop.line
    /\ IF loopI[t] # AssertedNot THEN ScopeExit(t) ELSE Panic(t, 0)

\* The main thread starts a second thread that runs run().
SpawnRun == Spawn(MainThread, CHOOSE c \in Threads : c # MainThread)

NextExample ==
    \/ MainAddPanicHook
    \/ SetHook(MainThread)
    \/ MainEcontext
    \/ \E t \in Threads : Register(t)
    \/ \E t \in Threads : RunEcontextFunction(t)
    \/ \E t \in Threads : ProcessEcontextFunctionData(t)
    \/ \E t \in Threads : ProcessForNext(t)
    \/ \E t \in Threads : ProcessEcontextData(t)
    \/ \E t \in Threads : ProcessAssert(t)
    \/ \E t \in Threads : Unwind(t)
    \/ \E t \in Threads : Caught(t)
    \/ SpawnRun

\* The program of examples/example.rs, with a second thread running run().
SpecExample == InitHook /\ [][NextExample]_vars

----------------------------------------------------------------------------
(* Vocabulary of the properties *)

\* The address of the n-th live scope of thread t, None below the first.
ScopePtr(t, n) == IF n = 0 THEN None ELSE Some(Ptr(t, n))

\* Thread t is between two statements of an econtext macro.
MidEntry(t) == pc[t] = "new"

\* The scopes of t whose macro has completed, and the innermost of them.
Entered(t) == IF MidEntry(t) THEN Len(stack[t]) - 1 ELSE Len(stack[t])

\* This step dropped the innermost scope of t.
Exits(t) == Len(stack'[t]) = Len(stack[t]) - 1

\* Location, message and payload text of a frame, as one line without its end.
LineOf(f) == Prefix(f) \o DebugFmt(f.data, 1).out
FullLineOf(f) == LineOf(f) \o <<"\n">>

OccursAt(text, frag, i) ==
    /\ i >= 1
    /\ i + Len(frag) - 1 <= Len(text)
    /\ SubSeq(text, i, i + Len(frag) - 1) = frag

RECURSIVE Concat(_)
\* The String the pieces make up.
Concat(text) == IF text = <<>> THEN "" ELSE Head(text) \o Concat(Tail(text))

RECURSIVE SplitLines(_, _)
\* The lines of text, each without its "\n"; a last line lacking its "\n"
\* counts when it is not empty.
SplitLines(text, cur) ==
    IF text = <<>> THEN (IF cur = <<>> THEN <<>> ELSE <<cur>>)
    ELSE IF Head(text) = "\n" THEN <<cur>> \o SplitLines(Tail(text), <<>>)
    ELSE SplitLines(Tail(text), Append(cur, Head(text)))

Reverse(s) == [i \in 1..Len(s) |-> s[Len(s) + 1 - i]]

\* The payload of frame f fails to format.
Fails(f) == DebugFmt(f.data, 1).result = "Err"
Formats(f) == ~Fails(f)

\* Where in text the pieces of frag stand, one after the other.
Positions(text, frag) ==
    {i \in 1..Len(text) : text[i] = frag[1] /\ OccursAt(text, frag, i)}

\* The first place at or after `from` where frag stands in text, 0 if none.
FirstAt(text, frag, from) ==
    LET at == {i \in Positions(text, frag) : i >= from}
    IN  IF at = {} THEN 0 ELSE CHOOSE i \in at : \A j \in at : i <= j

RECURSIVE InOrder(_, _, _)
\* The fragments of frags stand in text from `from` on, in this order and
\* without overlap.
InOrder(text, from, frags) ==
    IF frags = <<>> THEN TRUE
    ELSE LET i == FirstAt(text, Head(frags), from)
         IN  i # 0 /\ InOrder(text, i + Len(Head(frags)), Tail(frags))

RECURSIVE Chain(_)
\* The pointers the renderer follows from o.
Chain(o) ==
    IF ~o.some THEN {}
    ELSE IF ~IsLive(o.ptr) THEN {o.ptr}
    ELSE {o.ptr} \cup Chain(Deref(o.ptr).previous)

\* The scenario of examples/example.rs at the failing assert.
DocumentedLines == <<5, 10, 15, 17>>
LinesOfStack(t) == [k \in 1..Len(stack[t]) |-> stack[t][k].line]

----------------------------------------------------------------------------
(* C1 *)

\* C1: every scope exit leaves the thread's ERROR_STACK equal to the value
\* it had immediately before that scope was entered, and a thread with no
\* scope left has ERROR_STACK = None.
C1_RoundTrip ==
    /\ [][\A t \in Threads :
            Exits(t) => ERROR_STACK'[t] = atEntry[t][Len(stack[t])]]_vars
    /\ [](\A t \in Threads : stack[t] = <<>> => ERROR_STACK[t] = None)

\* A nested scope has just exited and left an enclosing scope on top.
C1_Witness ==
    \E t \in Threads : pc[t] = "exited" /\ Len(stack[t]) >= 2 /\ ERROR_STACK[t].some

----------------------------------------------------------------------------
(* C2 *)

\* C2: a thread's ERROR_STACK points to exactly the most recently entered
\* scope of that thread that has not exited (None when there is none), and
\* never to a DataScope that has been dropped.
C2_StackHandle ==
    \A t \in Threads :
        /\ ERROR_STACK[t] = ScopePtr(t, Entered(t))
        /\ ERROR_STACK[t].some => IsLive(ERROR_STACK[t].ptr)

\* Both threads hold scopes, and one of them has just left an inner one.
C2_Witness ==
    /\ pc["T1"] = "exited" /\ Len(stack["T1"]) = 2
    /\ Len(stack["T2"]) >= 1

----------------------------------------------------------------------------
(* C3 *)

\* C3: when scope A was entered before scope B on a thread and both are
\* active, the text econtext_string() returns holds B's line strictly
\* before A's line.
C3_InnermostFirst ==
    \A t \in Threads :
        ret[t].has =>
            \A a, b \in 1..Len(stack[t]) :
                a < b =>
                    \E i \in Positions(ret[t].text, LineOf(stack[t][b])) :
                        \E j \in Positions(ret[t].text, LineOf(stack[t][a])) :
                            i + Len(LineOf(stack[t][b])) <= j

\* econtext_string() returned with three different scopes active.
C3_Witness ==
    \E t \in Threads :
        /\ ret[t].has
        /\ Len(stack[t]) = 3
        /\ stack[t][1].line # stack[t][2].line
        /\ stack[t][2].line # stack[t][3].line

----------------------------------------------------------------------------
(* C4 *)

\* C4: with n scopes active econtext_string() returns exactly n lines, the
\* k-th being location, message and payload text of the k-th most recently
\* entered scope; in the documented scenario these are the four lines of
\* the crate documentation, "i" 4 first and "While running" last.
C4_ExactChain ==
    \A t \in Threads :
        ret[t].has =>
            LET n == Len(stack[t])
                lines == SplitLines(ret[t].text, <<>>)
            IN  /\ Len(lines) = n
                /\ \A k \in 1..n : lines[k] = LineOf(stack[t][n + 1 - k])
                /\ LinesOfStack(t) = DocumentedLines =>
                      Concat(ret[t].text) =
                          "  example examples/example.rs:17: i 4\n"
                          \o "  example examples/example.rs:15: example::process \"filename.txt\"\n"
                          \o "  example examples/example.rs:10: example::run \n"
                          \o "  example examples/example.rs:5: While running \n"

\* What does hold of the code: the claim for chains whose payloads all format.
C4_WhenAllFormat ==
    \A t \in Threads :
        (ret[t].has /\ \A k \in 1..Len(stack[t]) : Formats(stack[t][k])) =>
            LET n == Len(stack[t])
                lines == SplitLines(ret[t].text, <<>>)
            IN  /\ Len(lines) = n
                /\ \A k \in 1..n : lines[k] = LineOf(stack[t][n + 1 - k])
                /\ LinesOfStack(t) = DocumentedLines =>
                      Concat(ret[t].text) =
                          "  example examples/example.rs:17: i 4\n"
                          \o "  example examples/example.rs:15: example::process \"filename.txt\"\n"
                          \o "  example examples/example.rs:10: example::run \n"
                          \o "  example examples/example.rs:5: While running \n"

\* econtext_string() returned in the documented scenario.
C4_Documented ==
    \E t \in Threads : ret[t].has /\ LinesOfStack(t) = DocumentedLines

----------------------------------------------------------------------------
(* C5 *)

\* C5: when the innermost scope exits, the rendering loses exactly that
\* scope's line: what econtext_string() gave before the exit is that line
\* followed by what it gives after the exit.
C5_ExitRemovesLine ==
    [][\A t \in Threads :
          Exits(t) =>
              LET top == stack[t][Len(stack[t])]
                  before == EcontextStringOf(t).out
                  after == EcontextStringOf(t)'.out
              IN  \E L \in {LineOf(top), FullLineOf(top)} : before = L \o after]_vars

\* The "i" scope of the documented scenario has just exited: three lines are left.
C5_Witness ==
    \E t \in Threads :
        /\ pc[t] = "exited"
        /\ LinesOfStack(t) = <<5, 10, 15>>
        /\ Len(SplitLines(EcontextStringOf(t).out, <<>>)) = 3

----------------------------------------------------------------------------
(* C6 *)

\* C6: a scope entered or exited on one thread never changes another
\* thread's ERROR_STACK nor what econtext_string() gives there; the chain of
\* a thread holds frames of that thread only; a newly spawned thread starts
\* with ERROR_STACK = None, whatever scopes its parent has active.
C6_ThreadIsolation ==
    /\ [][\A t1, t2 \in Threads :
            (/\ t1 # t2
             /\ (stack'[t1] # stack[t1] \/ ERROR_STACK'[t1] # ERROR_STACK[t1]))
            => /\ ERROR_STACK'[t2] = ERROR_STACK[t2]
               /\ EcontextStringOf(t2)' = EcontextStringOf(t2)]_vars
    /\ [](\A t \in Threads : \A p \in Chain(ERROR_STACK[t]) : p.thread = t)
    /\ [](\A t \in Threads : pc[t] = "run" => ERROR_STACK[t] = None)

\* T2 has just been spawned and T1 has entered scopes.
C6_Witness ==
    /\ pc["T2"] = "run"
    /\ pc["T1"] = "entered"
    /\ Len(stack["T1"]) >= 2

----------------------------------------------------------------------------
(* C7 *)

\* C7: when the calling thread has no active scope (ERROR_STACK is None),
\* econtext_string() returns the empty string.
C7_EmptyStackEmptyText ==
    \A t \in Threads :
        (ret[t].has /\ ~ERROR_STACK[t].some) => Concat(ret[t].text) = ""

\* econtext_string() returned on a thread without scopes.
C7_Witness ==
    \E t \in Threads : ret[t].has /\ ERROR_STACK[t] = None /\ stack[t] = <<>>

----------------------------------------------------------------------------
(* C8 *)

\* This step handled a panic raised on thread t.
Panics(t) == pc[t] \in Ready /\ pc'[t] = "unwind"

\* C8: the closure add_panic_hook() installs owns the hook C it took, and
\* on a later panic print_econtext() for the panicking thread returns
\* before C is called; C is then called exactly once, with the PanicInfo
\* std handed to the installed hook.
C8_HookComposition ==
    /\ [][\A t \in Threads :
            (pc[t] = "taking" /\ pc'[t] = "hooked") =>
                hook' = [layers |-> taken[t].layers + 1, base |-> taken[t].base]]_vars
    /\ [][\A t \in Threads :
            (Panics(t) /\ hook.base = "C" /\ hook.layers >= 1) =>
                LET new == log'[t]
                    n == Len(new)
                IN  /\ n = hook.layers + 1
                    /\ \A i \in 1..(n - 1) :
                          new[i] = [kind |-> "print_econtext", thread |-> t,
                                    context |-> EcontextStringOf(t).out]
                    /\ new[n] = [kind |-> "hook", name |-> "C",
                                 info |-> [thread |-> t, message |-> PanicMessage]]]_vars

\* C has been called right after print_econtext() printed a chain.
C8_Witness ==
    \E t \in Threads : \E i \in 2..Len(log[t]) :
        /\ log[t][i].kind = "hook" /\ log[t][i].name = "C"
        /\ log[t][i - 1].kind = "print_econtext" /\ log[t][i - 1].context # <<>>
        /\ stderr[t] # <<>>

----------------------------------------------------------------------------
(* C9 *)

\* C9: scope entry, scope exit and econtext_string() never panic, also when
\* a payload's Debug::fmt run by econtext_string() enters and exits a scope.
C9_NeverPanics == crash = "none"

----------------------------------------------------------------------------
(* C10 *)

\* C10: when the payload of an active frame fails to format,
\* econtext_string() still returns, and its text holds the full line of
\* every other active frame, innermost first.
C10_FailureIsPerFrame ==
    /\ crash = "none"
    /\ \A t \in Threads :
          (ret[t].has /\ \E k \in 1..Len(stack[t]) : Fails(stack[t][k])) =>
              LET others == SelectSeq(Reverse(stack[t]), Formats)
              IN  InOrder(ret[t].text, 1, [i \in 1..Len(others) |-> FullLineOf(others[i])])

\* econtext_string() returned with a failing payload between two that format.
C10_Witness ==
    \E t \in Threads :
        /\ ret[t].has
        /\ Len(stack[t]) = 3
        /\ Formats(stack[t][1]) /\ Fails(stack[t][2]) /\ Formats(stack[t][3])

----------------------------------------------------------------------------
(* C11 *)

RECURSIVE DegradedText(_)
\* One newline-terminated line per frame of frames (innermost first), a
\* failing payload contributing the empty text.
DegradedText(frames) ==
    IF frames = <<>> THEN <<>>
    ELSE LineOf(Head(frames)) \o <<"\n">> \o DegradedText(Tail(frames))

\* C11: a frame whose payload fails to format comes out as its location
\* and message with an empty payload text, still ended by its newline, so
\* the text is exactly one newline-terminated line per active frame.
C11_DegradedLineKeepsNewline ==
    \A t \in Threads :
        ret[t].has =>
            /\ ret[t].text = DegradedText(Reverse(stack[t]))
            /\ Len(SplitLines(ret[t].text, <<>>)) = Len(stack[t])

----------------------------------------------------------------------------
(* C12 *)

\* C12: on every exit path (return, early return, unwinding) the Drop of a
\* scope sets ERROR_STACK to what it was when the scope was entered, and
\* when a panic has unwound out of the scopes above a catch point,
\* ERROR_STACK is what it was when the code under the catch point began.
C12_RestoredOnEveryPath ==
    /\ [][\A t \in Threads :
            Exits(t) => ERROR_STACK'[t] = atEntry[t][Len(stack[t])]]_vars
    /\ [](\A t \in Threads :
            (pc[t] = "unwind" /\ Len(stack[t]) > unwindTo[t]) =>
                atEntry[t][unwindTo[t] + 1] = ScopePtr(t, unwindTo[t]))
    /\ [][\A t \in Threads :
            (pc[t] = "unwind" /\ pc'[t] = "caught") =>
                /\ ERROR_STACK[t] = ScopePtr(t, unwindTo[t])
                /\ ERROR_STACK'[t] = ERROR_STACK[t]]_vars

\* A panic raised under two scopes has unwound the inner one and reached a
\* catch point inside the outer one, which is the top again.
C12_Witness ==
    \E t \in Threads :
        /\ pc[t] = "unwind"
        /\ unwindTo[t] = 1 /\ Len(stack[t]) = 1
        /\ ERROR_STACK[t] = Some(Ptr(t, 1))
        /\ log[t] # <<>> /\ log[t][1].kind = "print_econtext"
        /\ Len(SplitLines(log[t][1].context, <<>>)) = 2

----------------------------------------------------------------------------
(* C13 *)

\* The scopes of t entered by the loop body of process().
LoopFrames(t) == {k \in 1..Len(stack[t]) : stack[t][k].line = SiteLoop.line}

\* C13: the hook runs before any scope is unwound and prints every scope
\* that was active when the panic was raised; of the loop body only the
\* frame of the current iteration is in the chain, so the panic of
\* iteration i = 4 prints one "i" line with payload 4 followed by the
\* enclosing frames.
C13_HookSeesPanicChain ==
    /\ [](\A t \in Threads : Cardinality(LoopFrames(t)) <= 1)
    /\ [][\A t \in Threads :
            (Panics(t) /\ hook.layers >= 1) =>
                /\ stack'[t] = stack[t] /\ ERROR_STACK'[t] = ERROR_STACK[t]
                /\ \A n \in 1..hook.layers :
                      log'[t][n] = [kind |-> "print_econtext", thread |-> t,
                                    context |-> DegradedText(Reverse(stack[t]))]
                /\ \A k \in LoopFrames(t) :
                      k = Len(stack[t]) /\ stack[t][k].data = I32(AssertedNot)
                /\ t = MainThread =>
                      Concat(stderr'[t]) =
                          "ERROR CONTEXT:\n"
                          \o "  example examples/example.rs:17: i 4\n"
                          \o "  example examples/example.rs:15: example::process \"filename.txt\"\n"
                          \o "  example examples/example.rs:10: example::run \n"
                          \o "  example examples/example.rs:5: While running \n"
                          \o "\n"]_vars

\* The assert of iteration 4 has failed on the main thread, after the
\* iterations 0 to 3: the hook has printed, and no scope is unwound yet.
C13_Witness ==
    /\ pc[MainThread] = "unwind"
    /\ loopI[MainThread] = AssertedNot
    /\ LinesOfStack(MainThread) = DocumentedLines
    /\ Len(log[MainThread]) = 2
    /\ Len(SplitLines(log[MainThread][1].context, <<>>)) = 4

----------------------------------------------------------------------------
(* C14 *)

\* C14: the `previous` of every live DataScope is None or points to a
\* DataScope of the same thread that was entered earlier and has not
\* exited; it never points to a dropped frame.
C14_PreviousIsLiveEarlier ==
    \A t \in Threads : \A k \in 1..Len(stack[t]) :
        LET p == stack[t][k].previous
        IN  p.some =>
                /\ p.ptr.thread = t
                /\ p.ptr.slot < k
                /\ IsLive(p.ptr)

\* A thread holds three nested scopes, each linked to the one entered
\* before it, while the other thread holds a scope too.
C14_Witness ==
    \E t, u \in Threads :
        /\ t # u /\ stack[u] # <<>>
        /\ Len(stack[t]) = 3 /\ pc[t] = "entered"
        /\ stack[t][3].previous = Some(Ptr(t, 2))
        /\ stack[t][2].previous = Some(Ptr(t, 1))
        /\ stack[t][1].previous = None

----------------------------------------------------------------------------
(* C15 *)

\* C15: DataScope::new sets the new frame's `previous` to the value
\* ERROR_STACK has at construction and leaves ERROR_STACK unchanged; the
\* only change of ERROR_STACK on entry is the macro's next statement, which
\* stores the pointer to the new frame.
C15_NewOnlyReads ==
    [][\A t \in Threads :
          /\ (pc[t] # "new" /\ pc'[t] = "new") =>
                /\ ERROR_STACK' = ERROR_STACK
                /\ Len(stack'[t]) = Len(stack[t]) + 1
                /\ SubSeq(stack'[t], 1, Len(stack[t])) = stack[t]
                /\ stack'[t][Len(stack'[t])].previous = ERROR_STACK[t]
          /\ (pc[t] = "new" /\ pc'[t] # "new") =>
                /\ ERROR_STACK' = [ERROR_STACK EXCEPT ![t] = Some(Ptr(t, Len(stack[t])))]
                /\ stack' = stack]_vars

\* DataScope::new has returned inside an enclosing scope and the macro's
\* assignment has not run: ERROR_STACK still names the enclosing scope.
C15_Witness ==
    \E t \in Threads :
        /\ pc[t] = "new"
        /\ Len(stack[t]) = 2
        /\ stack[t][2].previous = Some(Ptr(t, 1))
        /\ ERROR_STACK[t] = Some(Ptr(t, 1))

----------------------------------------------------------------------------
(* C16 *)

\* What one print_econtext() of a thread with a scope writes: the two
\* eprintln! calls.
HeaderAndText(text) == <<"ERROR CONTEXT:", "\n">> \o text \o <<"\n">>

RECURSIVE Repeat(_, _)
Repeat(text, n) == IF n = 0 THEN <<>> ELSE text \o Repeat(text, n - 1)

\* C16: print_econtext() writes the header ERROR CONTEXT: followed by the
\* rendered text when the calling thread has an active scope and writes
\* nothing when it has none; in that case too the hook of add_panic_hook()
\* calls the hook that was installed before it.
C16_PrintsOnlyNonEmpty ==
    [][\A t \in Threads :
          (Panics(t) /\ hook.layers >= 1) =>
              /\ stderr'[t] = IF Entered(t) >= 1
                              THEN Repeat(HeaderAndText(EcontextStringOf(t).out), hook.layers)
                              ELSE <<>>
              /\ Entered(t) >= 1 => Len(EcontextStringOf(t).out) > 0
              /\ log'[t][Len(log'[t])] =
                    [kind |-> "hook", name |-> hook.base,
                     info |-> [thread |-> t, message |-> PanicMessage]]
              /\ Cardinality({n \in 1..Len(log'[t]) : log'[t][n].kind = "hook"}) = 1]_vars

\* Two threads have panicked under the installed hook: one without a scope,
\* for which nothing was written and the earlier hook was called, and one
\* with a scope, for which header and text were written.
C16_Witness ==
    \E t, u \in Threads :
        /\ pc[t] = "unwind" /\ stack[t] = <<>> /\ stderr[t] = <<>>
        /\ Len(log[t]) >= 2
        /\ log[t][1].kind = "print_econtext" /\ log[t][Len(log[t])].kind = "hook"
        /\ pc[u] = "unwind" /\ stack[u] # <<>> /\ unwindTo[u] = Len(stack[u])
        /\ Len(log[u]) >= 2
        /\ stderr[u] # <<>> /\ stderr[u][1] = "ERROR CONTEXT:"

----------------------------------------------------------------------------
(* C17 *)

\* No add_panic_hook() call is between its take_hook and its set_hook.
NoCallInProgress == \A u \in Threads : pc[u] # "taking"

\* What a hook run of thread t logs when `prints` closures of
\* add_panic_hook() run and then the hook h is called.
PrintsThenHook(t, prints, h) ==
    [n \in 1..(prints + 1) |->
        IF n <= prints
        THEN [kind |-> "print_econtext", thread |-> t, context |-> EcontextStringOf(t).out]
        ELSE [kind |-> "hook", name |-> h.base,
              info |-> [thread |-> t, message |-> PanicMessage]]]

\* C17: after k >= 1 calls of add_panic_hook() a panic with a non-empty
\* chain runs render-and-print exactly k times and then the originally
\* installed hook exactly once; no earlier hook is dropped or replaced.
C17_EveryCallStacks ==
    [][\A t \in Threads :
          (Panics(t) /\ added >= 1 /\ NoCallInProgress /\ Entered(t) >= 1) =>
              log'[t] = PrintsThenHook(t, added, original)]_vars

\* What does hold of the code: the claim for calls none of which began
\* between the take_hook and the set_hook of another.
C17_WhenNoCallLost ==
    [][\A t \in Threads :
          (Panics(t) /\ added >= 1 /\ NoCallInProgress /\ Entered(t) >= 1
           /\ hook.layers = added) =>
              log'[t] = PrintsThenHook(t, added, original)]_vars

\* Two calls have returned one after the other and a panic with a
\* non-empty chain has run the hook.
C17_Stacked ==
    \E t \in Threads :
        /\ pc[t] = "unwind" /\ added = 2 /\ hook.layers = 2
        /\ Len(log[t]) = 3 /\ log[t][1].context # <<>>

----------------------------------------------------------------------------
(* C18 *)

\* The record a scope carries, without its link.
Rec(f) ==
    [module_path |-> f.module_path, file |-> f.file, line |-> f.line,
     message |-> f.message, data |-> f.data]

RECURSIVE ChainSeq(_)
\* The records met by following `previous` from o, innermost first.
ChainSeq(o) ==
    IF ~o.some \/ ~IsLive(o.ptr) THEN <<>>
    ELSE <<Rec(Deref(o.ptr))>> \o ChainSeq(Deref(o.ptr).previous)

\* The sequence model: entry appends a record, exit truncates to the
\* length saved at entry, rendering goes from the last record to the first.
SeqEnter(q, rec) == Append(q, rec)
SeqExit(q, saved) == SubSeq(q, 1, saved)
RECURSIVE SeqRender(_)
SeqRender(q) ==
    IF q = <<>> THEN <<>>
    ELSE WriteOwn(q[Len(q)], 1).out \o SeqRender(SubSeq(q, 1, Len(q) - 1))

RECURSIVE ChainUp(_)
\* The same records, the one met last first.
ChainUp(o) ==
    IF ~o.some \/ ~IsLive(o.ptr) THEN <<>>
    ELSE Append(ChainUp(Deref(o.ptr).previous), Rec(Deref(o.ptr)))

\* The sequence the linked list of thread t stands for.
AbsSeq(t) == ChainUp(ERROR_STACK[t])

\* C18: the chain reachable from ERROR_STACK through `previous` is, in
\* reverse, a per-thread sequence to which each entry appends a record and
\* which each exit truncates to its length at that scope's entry, and both
\* give the same rendering after every step.
C18_ListIsSequence ==
    /\ [](\A t \in Threads :
            /\ AbsSeq(t) = Reverse(ChainSeq(ERROR_STACK[t]))
            /\ AbsSeq(t) = [k \in 1..Entered(t) |-> Rec(stack[t][k])]
            /\ \A k \in 1..Len(stack[t]) : Len(ChainSeq(atEntry[t][k])) = k - 1
            /\ EcontextStringOf(t).status = "ok"
            /\ EcontextStringOf(t).out = SeqRender(AbsSeq(t)))
    /\ [][\/ stack' = stack /\ ERROR_STACK' = ERROR_STACK
          \/ \A t \in Threads :
                AbsSeq(t)' =
                    IF pc[t] = "new" /\ pc'[t] # "new"
                    THEN SeqEnter(AbsSeq(t), Rec(stack[t][Len(stack[t])]))
                    ELSE IF Exits(t)
                    THEN SeqExit(AbsSeq(t), Len(ChainSeq(atEntry[t][Len(stack[t])])))
                    ELSE AbsSeq(t)]_vars

\* A thread has left its third scope and entered another in its place,
\* and the other thread has a sequence of its own.
C18_Witness ==
    \E t, u \in Threads :
        /\ t # u /\ Len(AbsSeq(u)) = 1
        /\ pc[t] = "entered" /\ Len(AbsSeq(t)) = 3
        /\ AbsSeq(t)[1].line # AbsSeq(t)[3].line
        /\ Fails(AbsSeq(t)[2])

----------------------------------------------------------------------------
(* C19 *)

\* C19: the `previous` chain from ERROR_STACK is acyclic and finite: it
\* goes through live frames at strictly decreasing stack slots, one per
\* active scope.  So econtext_string() comes to its end in every state
\* (it neither reads a dead frame nor panics), and what it returns is the
\* output of each active frame exactly once.
C19_RenderingTerminates ==
    \A t \in Threads :
        /\ \A p \in Chain(ERROR_STACK[t]) :
              /\ IsLive(p)
              /\ Deref(p).previous.some => Deref(p).previous.ptr.slot < p.slot
        /\ Cardinality(Chain(ERROR_STACK[t])) = Entered(t)
        /\ EcontextStringOf(t).status = "ok"
        /\ pc[t] # "aborted"
        /\ ret[t].has => ret[t].text = SeqRender(stack[t])

\* econtext_string() returned with four scopes active, two of them entered
\* at the same call site.
C19_Witness ==
    \E t \in Threads :
        /\ ret[t].has
        /\ Len(stack[t]) = 4
        /\ stack[t][1].line = stack[t][3].line
        /\ stack[t][2].line # stack[t][4].line

----------------------------------------------------------------------------
(* C20 *)

\* This step is a call of econtext_string() or of print_econtext() by t
\* that follows another kind of statement.
Renders(t) ==
    \/ ~ret[t].has /\ ret'[t].has
    \/ pc[t] # "printed" /\ pc'[t] = "printed"

\* C20: econtext_string() and print_econtext() leave ERROR_STACK and the
\* `previous` of every frame unchanged, so two econtext_string() calls of a
\* thread with no scope entry or exit of the thread between them return the
\* same text.
C20_RenderingIsReadOnly ==
    [][\A t \in Threads :
          /\ Renders(t) =>
                /\ ERROR_STACK' = ERROR_STACK
                /\ stack' = stack
          /\ (~ret[t].has /\ ret'[t].has) => ret'[t].text = EcontextStringOf(t).out
          /\ (ret[t].has /\ ret'[t].has) => ret'[t] = ret[t]
          /\ (pc[t] = "printed" /\ ret'[t].has) =>
                stderr[t] = IF ret'[t].text = <<>> THEN <<>>
                            ELSE <<"ERROR CONTEXT:", "\n">> \o ret'[t].text \o <<"\n">>]_vars

\* One thread holds the text econtext_string() returned for its two scopes
\* while the other has just printed its own chain.
C20_Witness ==
    \E t, u \in Threads :
        /\ pc[t] = "returned" /\ ret[t].has /\ Len(stack[t]) = 2
        /\ ret[t].text = EcontextStringOf(t).out
        /\ pc[u] = "printed" /\ stderr[u] # <<>> /\ Len(stack[u]) = 2

====
